---- MODULE Spec2Model ----
(***************************************************************************)
(* A model of bem-smoke's TechTest session (lib/tech-test.js) and of its   *)
(* StubLevel (lib/stub-level.js): the setup state, the lazy load on each   *)
(* action of the virtual file system, mocks, levels, context and tech, and *)
(* the chain of deferred operations built on one Q promise.                *)
(*                                                                         *)
(* Strings that are compared character by character (file contents and    *)
(* the arguments of withContent) are sequences of one-character strings.   *)
(* A JavaScript map that is only ever read through merge() or `|| {}` is   *)
(* a TLA+ function whose domain is its key set, undefined being the empty  *)
(* map.  The virtual file system is flat: a function from the paths that   *)
(* exist to their content and modification time.                           *)
(***************************************************************************)
EXTENDS Integers, Sequences, FiniteSets, TLC

\* ------------------------------------------------------------- bounds
MaxItems == 3
MaxNotify == 1
MaxClock == 1
MaxArgs == 2
MaxLoads == 2

\* ------------------------------------------------------------ domains
Paths == {"x.ext", "y.ext"}
NL == "\n"
Lines == {<<>>, <<"a">>}
FileContents == {<<"a">>, <<"a", NL>>, <<"a", NL, "a">>}
TechContent == <<"a", NL>>

ReservedIds == {"fs", "q-fs", "q-io/fs"}
JsValues == {"object", "function", "string", "number", "true",
             "false", "null", "zero", "emptystring"}
Truthy(v) == v \in {"object", "function", "string", "number", "true"}

LevelPaths == {"/", "/blocks"}
LevelLists == {<<"/">>, <<"/blocks">>, <<"/blocks", "/">>}

\* the session under test: testTech(techName, modulePath)
TechName == "css"
ModulePath == "/techs/css.js"
\* map objects the author may pass to withTechMap, by object identity
AuthorMapInit ==
    <<[k \in {"base"} |-> "/techs/base.js"],
      [k \in {"base", "css"} |-> IF k = "base" THEN "/techs/base.js" ELSE "/other/css.js"]>>
AuthorMaps == DOMAIN AuthorMapInit
FreshMap == Len(AuthorMapInit) + 1
NoRef == 0
NoTime == -1

VARIABLES
    sources,          \* _sources (undefined = the empty tree)
    mockedModules,    \* _mockedModules
    mockedResolves,   \* _mockedResolves
    levelPaths,       \* _levelPaths (undefined = <<>>)
    techMap,          \* _techMap: a reference into heap, NoRef = undefined
    heap,             \* the contents of the map objects _techMap can refer to
    buildDecl,        \* _buildDecl
    fsId,             \* _fs: the identity of the QFSMock instance, 0 = undefined
    files,            \* the tree of that instance
    mocks,            \* opts.mocks of the latest _load
    levels,           \* _levels
    context,          \* _context
    tech,             \* _tech
    built,            \* how many times each resource has been constructed
    testStartTime,    \* _testStartTime
    lastFileName,     \* _lastFileName
    promise,          \* _promise: the index of the item whose promise it is, 0 = undefined
    items,            \* every deferred operation declared so far, in declaration order
    notified,         \* one record per notify(done) call
    thrown,           \* the exception the latest fluent call threw to its caller
    now               \* the clock read by new Date()

vars == <<sources, mockedModules, mockedResolves, levelPaths, techMap, heap, buildDecl,
          fsId, files, mocks, levels, context, tech, built, testStartTime, lastFileName,
          promise, items, notified, thrown, now>>

setupVars == <<sources, mockedModules, mockedResolves, levelPaths, techMap, heap, buildDecl>>
loadVars == <<fsId, mocks, levels, context, tech, built>>

EmptyMap == <<>>
NoContext == [id |-> 0, level |-> 0, decl |-> "undefined", techs |-> {}]
NoTech == [id |-> 0, name |-> "", context |-> 0]
NoneBuilt == [fs |-> 0, mocks |-> 0, levels |-> 0, context |-> 0, tech |-> 0]
NoLevel == [path |-> "", projectRoot |-> "", techMap |-> NoRef, gen |-> 0]

Init ==
    /\ sources = EmptyMap
    /\ mockedModules = EmptyMap
    /\ mockedResolves = EmptyMap
    /\ levelPaths = <<>>
    /\ techMap = NoRef
    /\ heap = [r \in 1..FreshMap |-> IF r \in AuthorMaps THEN AuthorMapInit[r] ELSE EmptyMap]
    /\ buildDecl = "undefined"
    /\ fsId = 0
    /\ files = EmptyMap
    /\ mocks = EmptyMap
    /\ levels = <<>>
    /\ context = NoContext
    /\ tech = NoTech
    /\ built = NoneBuilt
    /\ testStartTime = NoTime
    /\ lastFileName = "undefined"
    /\ promise = 0
    /\ items = <<>>
    /\ notified = <<>>
    /\ thrown = "none"
    /\ now = 0

\* ------------------------------------------------------------ helpers
\* merge(obj1, obj2): the keys of both, obj2 winning
mergeFirstWins(obj1, obj2) ==
    [k \in DOMAIN obj1 \cup DOMAIN obj2 |-> IF k \in DOMAIN obj1 THEN obj1[k] ELSE obj2[k]]
merge(obj1, obj2) ==
    [k \in DOMAIN obj1 \cup DOMAIN obj2 |-> IF k \in DOMAIN obj2 THEN obj2[k] ELSE obj1[k]]

\* ----------------------------------------------- the virtual file system
\* new QFSMock(tree): every file of the tree, stamped with the construction time
QFSMock(tree, t) == [p \in DOMAIN tree |-> [content |-> tree[p], mtime |-> t]]
\* fs.exists(path)
Exists(fs, p) == p \in DOMAIN fs
\* fs.write(path, content): what the technology under test does to produce a file
FsWrite(fs, p, c, t) ==
    [q \in DOMAIN fs \cup {p} |-> IF q = p THEN [content |-> c, mtime |-> t] ELSE fs[q]]
\* fs.open(path, 'w+'): creates the file or truncates it, and stamps it
FsOpenW(fs, p, t) == FsWrite(fs, p, <<>>, t)

\* ------------------------------------------------------ setup methods
\* the test of withMockedModules on the three identifiers the harness mocks itself
ReservedMockedNever(modules) == FALSE
ReservedMocked(modules) ==
    \E k \in ReservedIds : k \in DOMAIN modules /\ Truthy(modules[k].v)

AuthorValue(v) == [kind |-> "author", v |-> v, id |-> 0]
\* the tables a test passes to withMockedModules: one key each here, a reserved
\* identifier with any value or another module with a truthy or a falsy one
MockTables ==
    {EmptyMap}
    \cup UNION { { [k \in {m} |-> AuthorValue(v)] : v \in JsValues } : m \in ReservedIds }
    \cup { [k \in {"net"} |-> AuthorValue(v)] : v \in {"object", "null"} }
ResolveTables ==
    {EmptyMap} \cup UNION { { [k \in {m} |-> p] : p \in {"/stub/a", "/stub/b"} } : m \in {"net", "dep"} }

withSourceFiles(tree) ==
    /\ sources' = tree
    /\ thrown' = "none"
    /\ UNCHANGED <<mockedModules, mockedResolves, levelPaths, techMap, heap, buildDecl,
                   fsId, files, mocks, levels, context, tech, built, testStartTime,
                   lastFileName, promise, items, notified, now>>

withMockedModules(modules) ==
    /\ IF ReservedMocked(modules)
       THEN /\ thrown' = "ConfigError"
            /\ UNCHANGED mockedModules
       ELSE /\ mockedModules' = merge(mockedModules, modules)
            /\ thrown' = "none"
    /\ UNCHANGED <<sources, mockedResolves, levelPaths, techMap, heap, buildDecl,
                   fsId, files, mocks, levels, context, tech, built, testStartTime,
                   lastFileName, promise, items, notified, now>>

withMockedModulesResolves(modulePaths) ==
    /\ mockedResolves' = merge(mockedResolves, modulePaths)
    /\ thrown' = "none"
    /\ UNCHANGED <<sources, mockedModules, levelPaths, techMap, heap, buildDecl,
                   fsId, files, mocks, levels, context, tech, built, testStartTime,
                   lastFileName, promise, items, notified, now>>

withLevels(paths) ==
    /\ levelPaths' = paths
    /\ thrown' = "none"
    /\ UNCHANGED <<sources, mockedModules, mockedResolves, techMap, heap, buildDecl,
                   fsId, files, mocks, levels, context, tech, built, testStartTime,
                   lastFileName, promise, items, notified, now>>

withLevelAppend(level) == withLevels(Append(levelPaths, level))
withLevel(level) == withLevels(<<level>>)

withTechMap(ref) ==
    /\ techMap' = ref
    /\ thrown' = "none"
    /\ UNCHANGED <<sources, mockedModules, mockedResolves, levelPaths, heap, buildDecl,
                   fsId, files, mocks, levels, context, tech, built, testStartTime,
                   lastFileName, promise, items, notified, now>>

\* ------------------------------------------------------------- _load
\* _getMocks(): the author's table with the three file system identifiers on top
getMocksAuthorOnTop(fid) ==
    merge([k \in {"q-io/fs", "q-fs", "fs"} |->
              IF k = "fs" THEN [kind |-> "FSMock", v |-> "object", id |-> fid]
                          ELSE [kind |-> "QFSMock", v |-> "object", id |-> fid]],
          mockedModules)
getMocks(fid) ==
    merge(mockedModules,
          [k \in {"q-io/fs", "q-fs", "fs"} |->
              IF k = "fs" THEN [kind |-> "FSMock", v |-> "object", id |-> fid]
                          ELSE [kind |-> "QFSMock", v |-> "object", id |-> fid]])

\* new StubLevel(path, techMap): project root pinned, the map kept by reference
StubLevelOwnMap(path, ref, gen) ==
    [path |-> path, projectRoot |-> "/", techMap |-> FreshMap, gen |-> gen]
StubLevel(path, ref, gen) ==
    [path |-> path, projectRoot |-> "/", techMap |-> ref, gen |-> gen]
\* StubLevel.getTechs()
getTechs(level, h) == h[level.techMap]

\* _load(), stopped by an exception at `fail`: "fs" (new QFSMock), "mocks" (new FSMock
\* in _getMocks, with the file system kept but no table of mocks made), "levels"
\* (loading the stub-level module), "stublevel" (new StubLevel, after the level paths and the
\* technology map have been written), "context" (loading the framework or constructing
\* the context), "tech" (getTech), or running to its end ("none").  The record holds
\* the session's fields afterwards; built.levels counts the loads of the stub-level
\* module and numbers the levels made from it.
Load(decl, fail) ==
    LET pastFs == fail # "fs"
        pastMocks == fail \notin {"fs", "mocks"}
        pastModule == fail \notin {"fs", "mocks", "levels"}
        pastLevels == fail \notin {"fs", "mocks", "levels", "stublevel"}
        pastContext == fail \in {"tech", "none"}
        fid == IF fsId # 0 THEN fsId ELSE built.fs + 1
        newFiles == IF fsId # 0 THEN files ELSE QFSMock(sources, now)
        b1 == [built EXCEPT !.fs = IF fsId # 0 THEN @ ELSE @ + 1,
                            !.mocks = IF pastMocks THEN @ + 1 ELSE @]
        newMocks == getMocks(fid)
        paths == IF levelPaths # <<>> THEN levelPaths ELSE <<"/">>
        ref == IF techMap # NoRef THEN techMap ELSE FreshMap
        newHeap == [heap EXCEPT ![ref] = merge(@, [k \in {TechName} |-> ModulePath])]
        gen == built.levels + 1
        newLevels == [i \in 1..Len(paths) |-> StubLevel(paths[i], ref, gen)]
        newContext == [id |-> built.context + 1, level |-> gen, decl |-> decl,
                       techs |-> { newHeap[ref][k] : k \in DOMAIN newHeap[ref] }]
        newTech == [id |-> built.tech + 1, name |-> TechName, context |-> newContext.id]
    IN  [ok |-> fail = "none",
         fsId |-> IF pastFs THEN fid ELSE fsId,
         files |-> IF pastFs THEN newFiles ELSE files,
         mocks |-> IF pastMocks THEN newMocks ELSE mocks,
         levelPaths |-> IF pastModule THEN paths ELSE levelPaths,
         techMap |-> IF pastModule THEN ref ELSE techMap,
         heap |-> IF pastModule THEN newHeap ELSE heap,
         levels |-> IF pastLevels THEN newLevels ELSE levels,
         context |-> IF pastContext THEN newContext ELSE context,
         tech |-> IF fail = "none" THEN newTech ELSE tech,
         built |-> IF pastFs
                   THEN [b1 EXCEPT !.levels = IF pastModule THEN @ + 1 ELSE @,
                                   !.context = IF pastContext THEN @ + 1 ELSE @,
                                   !.tech = IF fail = "none" THEN @ + 1 ELSE @]
                   ELSE built]

LoadFailures == {"none", "fs", "mocks", "levels", "stublevel", "context", "tech"}

\* a second session, testTech for another technology, that was given the map object
\* `ref` by withTechMap: its _loadLevels writes its own entry into that object
OtherTechName == "js"
OtherModulePath == "/techs/js.js"
otherLoadLevels(ref) ==
    /\ OtherTechName \notin DOMAIN heap[ref]
    /\ heap' = [heap EXCEPT ![ref] = merge(@, [k \in {OtherTechName} |-> OtherModulePath])]
    /\ UNCHANGED <<sources, mockedModules, mockedResolves, levelPaths, techMap, buildDecl,
                   fsId, files, mocks, levels, context, tech, built, testStartTime,
                   lastFileName, promise, items, notified, thrown, now>>

\* --------------------------------------------------- the deferred chain
NoRes == [ok |-> TRUE, v |-> "", by |-> 0]
Ok(v, i) == [ok |-> TRUE, v |-> v, by |-> i]
Fail(v, i) == [ok |-> FALSE, v |-> v, by |-> i]

Actions == {"create", "build"}

\* a deferred operation as declared: its closure's captured values, not yet run
\* (wrote: the paths the technology has written while this create/build ran, or the
\* path touchFile's closure has opened;
\* tech, levels, startedAt: what the closure of create/build read from the session
\* and the time it recorded when it ran; declTech, declLevels: the technology and
\* the levels its own _load() left)
Item(kind, path, content, args, level) ==
    [kind |-> kind, path |-> path, content |-> content, args |-> args, level |-> level,
     prev |-> 0, st |-> "pending", ran |-> FALSE, res |-> NoRes, wrote |-> {},
     tech |-> 0, levels |-> <<>>, startedAt |-> NoTime, declTech |-> 0, declLevels |-> <<>>]

\* the closure of create/build runs: it stamps the start time and dereferences
\* self._tech, and build's dereferences self._levels; other closures read neither
Invoke(it, t, ls) ==
    IF it.kind \in {"create", "build"}
    THEN [it EXCEPT !.tech = t.id,
                    !.levels = IF it.kind = "build" THEN ls ELSE <<>>,
                    !.startedAt = now]
    ELSE it

\* Array.prototype.join.call(arguments, '\n')
RECURSIVE join(_, _)
join(args, sep) ==
    IF Len(args) = 0 THEN <<>>
    ELSE IF Len(args) = 1 THEN args[1]
    ELSE args[1] \o sep \o join(Tail(args), sep)

\* the expected content withContent computes from its arguments
expectedContentComma(args) == IF Len(args) > 1 THEN join(args, <<",">>) ELSE args[1]
expectedContent(args) == IF Len(args) > 1 THEN join(args, <<NL>>) ELSE args[1]

\* the comparisons of writesToFile and notWritesToFile: an undefined start time
\* compares false both ways
writesOperator(mtime, start) == start # NoTime /\ mtime > start
notWritesOperatorStrict(mtime, start) == start # NoTime /\ mtime < start
notWritesOperator(mtime, start) == start # NoTime /\ mtime <= start

\* assert.eventually.<method>(promise, ..., message) when the promise is rejected, as
\* read() and lastModified() of an absent path are: the rejection passes through, or,
\* where chai-as-promised wraps the rejection of an assertion that was given a
\* message, it becomes an AssertionError
AbsentOutcomes == {"NotFound", "AssertionError"}

\* the outcome of each assertion's closure against the file system: exists() never
\* rejects; the other three give the set of outcomes the installed chai-as-promised
\* can produce
producesFileOutcome(fs, p) == IF Exists(fs, p) THEN "pass" ELSE "AssertionError"
withContentOutcome(fs, p, content) ==
    IF ~Exists(fs, p) THEN AbsentOutcomes
    ELSE IF fs[p].content = content THEN {"pass"} ELSE {"AssertionError"}
writesToFileOutcome(fs, p, start) ==
    IF ~Exists(fs, p) THEN AbsentOutcomes
    ELSE IF writesOperator(fs[p].mtime, start) THEN {"pass"} ELSE {"AssertionError"}
notWritesToFileOutcome(fs, p, start) ==
    IF ~Exists(fs, p) THEN AbsentOutcomes
    ELSE IF notWritesOperator(fs[p].mtime, start) THEN {"pass"} ELSE {"AssertionError"}

\* What call() can throw synchronously ("none": it returns a promise).  The technology
\* may throw from createByDecl/buildByDecl; a closure that dereferences self._fs throws
\* a TypeError while _fs is undefined; Q.fcall never throws.
CallThrows(it, fid) ==
    IF it.kind \in Actions THEN {"none", "TechThrow"}
    ELSE IF it.kind = "asserts" THEN {"none"}
    ELSE IF fid = 0 THEN {"TypeError"} ELSE {"none"}

\* the start time after call() has begun: both actions record it first
StartTimeNever(it) == testStartTime
StartTime(it) == IF it.kind \in Actions THEN now ELSE testStartTime

\* _enqueue's test of this._promise
HasPromiseNever == FALSE
HasPromise == promise # 0

\* _enqueue(call), where call() throws e or returns its promise (e = "none")
Enqueue(it, e) ==
    LET n == Len(items) + 1 IN
    IF ~HasPromise
    THEN [items |-> Append(items, [it EXCEPT !.st = IF e = "none" THEN "running" ELSE "thrown",
                                             !.ran = TRUE,
                                             !.res = IF e = "none" THEN NoRes ELSE Fail(e, n)]),
          promise |-> IF e = "none" THEN n ELSE promise,
          thrown |-> e,
          start |-> StartTime(it)]
    ELSE [items |-> Append(items, [it EXCEPT !.prev = promise]),
          promise |-> n,
          thrown |-> "none",
          start |-> testStartTime]

\* a fluent method that only enqueues `it`
Declare(it) ==
    /\ Len(items) < MaxItems
    /\ \E e \in CallThrows(it, fsId) :
          LET r == Enqueue(it, e) IN
          /\ items' = r.items
          /\ promise' = r.promise
          /\ thrown' = r.thrown
          /\ testStartTime' = r.start
    /\ UNCHANGED <<setupVars, loadVars, files, notified, now>>

touchFile(path) ==
    /\ Declare(Item("touchFile", path, <<>>, <<>>, NoLevel))
    /\ UNCHANGED lastFileName

producesFileUnnamed(path) ==
    /\ UNCHANGED lastFileName
    /\ Declare(Item("producesFile", path, <<>>, <<>>, NoLevel))
producesFile(path) ==
    /\ lastFileName' = path
    /\ Declare(Item("producesFile", path, <<>>, <<>>, NoLevel))

withContent(args) ==
    /\ Declare(Item("withContent", lastFileName, expectedContent(args), args, NoLevel))
    /\ UNCHANGED lastFileName

writesToFile(path) ==
    /\ Declare(Item("writesToFile", path, <<>>, <<>>, NoLevel))
    /\ UNCHANGED lastFileName

notWritesToFile(path) ==
    /\ Declare(Item("notWritesToFile", path, <<>>, <<>>, NoLevel))
    /\ UNCHANGED lastFileName

asserts ==
    /\ Declare(Item("asserts", "", <<>>, <<>>, NoLevel))
    /\ UNCHANGED lastFileName

\* create(elem) and build(output, decl): _load(), then the enqueued invocation
LoadThenEnqueue(kind, decl, fail) ==
    /\ Len(items) < MaxItems
    /\ built.mocks < MaxLoads
    /\ fail = "fs" => fsId = 0
    /\ LET l == Load(decl, fail)
       IN
       /\ fsId' = l.fsId
       /\ files' = l.files
       /\ mocks' = l.mocks
       /\ levelPaths' = l.levelPaths
       /\ techMap' = l.techMap
       /\ heap' = l.heap
       /\ levels' = l.levels
       /\ context' = l.context
       /\ tech' = l.tech
       /\ built' = l.built
       /\ IF l.ok
          THEN \E e \in CallThrows(Item(kind, "", <<>>, <<>>, NoLevel), l.fsId) :
                  LET it == [Item(kind, "", <<>>, <<>>,
                                  IF kind = "create" THEN l.levels[1] ELSE NoLevel)
                                EXCEPT !.declTech = l.tech.id, !.declLevels = l.levels]
                      r == Enqueue(it, e)
                      n == Len(r.items)
                  IN /\ items' = IF r.items[n].ran
                                 THEN [r.items EXCEPT ![n] = Invoke(@, l.tech, l.levels)]
                                 ELSE r.items
                     /\ promise' = r.promise
                     /\ thrown' = r.thrown
                     /\ testStartTime' = r.start
          ELSE /\ thrown' = "LoadError"
               /\ UNCHANGED <<items, promise, testStartTime>>
    /\ UNCHANGED <<sources, mockedModules, mockedResolves, lastFileName, notified, now>>

create(fail) ==
    /\ LoadThenEnqueue("create", buildDecl, fail)
    /\ UNCHANGED buildDecl

build(decl, fail) ==
    /\ buildDecl' = decl
    /\ LoadThenEnqueue("build", decl, fail)

\* notify(done): this._promise.then(done, done)
notify ==
    /\ Len(notified) < MaxNotify
    /\ IF promise = 0
       THEN /\ thrown' = "TypeError"
            /\ notified' = Append(notified, [on |-> 0, calls |-> 0, arg |-> NoRes])
       ELSE /\ thrown' = "none"
            /\ notified' = Append(notified, [on |-> promise, calls |-> 0, arg |-> NoRes])
    /\ UNCHANGED <<setupVars, loadVars, files, testStartTime, lastFileName, promise, items, now>>

\* ------------------------------------------- the promise chain at run time
\* the results a running operation can settle with
Outcomes(i) ==
    LET it == items[i]
        settle(o) == IF o = "pass" THEN Ok("undefined", i) ELSE Fail(o, i)
    IN  CASE it.kind \in Actions -> {Ok("techResult", i), Fail("TechReject", i)}
          [] it.kind = "asserts" -> {Ok("customResult", i), Ok("undefined", i), Fail("CustomError", i)}
          [] it.kind = "touchFile" -> {Ok("undefined", i)}
          [] it.kind = "producesFile" -> {settle(producesFileOutcome(files, it.path))}
          [] it.kind = "withContent" ->
                {settle(o) : o \in withContentOutcome(files, it.path, it.content)}
          [] it.kind = "writesToFile" ->
                {settle(o) : o \in writesToFileOutcome(files, it.path, testStartTime)}
          [] it.kind = "notWritesToFile" ->
                {settle(o) : o \in notWritesToFileOutcome(files, it.path, testStartTime)}

\* promise.then(call): the previous promise is fulfilled, call() runs; an exception
\* thrown by call() rejects the new promise
Start(i) ==
    /\ items[i].st = "pending"
    /\ items[i].prev # 0
    /\ items[items[i].prev].st = "fulfilled"
    /\ \E e \in CallThrows(items[i], fsId) :
          items' = [items EXCEPT ![i] = Invoke([@ EXCEPT !.st = IF e = "none" THEN "running"
                                                                ELSE "rejected",
                                                        !.ran = TRUE,
                                                        !.res = IF e = "none" THEN NoRes
                                                                ELSE Fail(e, i)],
                                               tech, levels)]
    /\ testStartTime' = StartTime(items[i])
    /\ UNCHANGED <<setupVars, loadVars, files, lastFileName, promise, notified, thrown, now>>

\* promise.then(call): the previous promise is rejected, call() is not run and the
\* new promise is rejected with the same error
Skip(i) ==
    /\ items[i].st = "pending"
    /\ items[i].prev # 0
    /\ items[items[i].prev].st = "rejected"
    /\ items' = [items EXCEPT ![i].st = "rejected", ![i].res = items[items[i].prev].res]
    /\ UNCHANGED <<setupVars, loadVars, files, testStartTime, lastFileName, promise,
                   notified, thrown, now>>

\* the technology under test writes a file while its create/build runs
TechWrite(i, p) ==
    /\ items[i].st = "running"
    /\ items[i].kind \in Actions
    /\ files' = FsWrite(files, p, TechContent, now)
    /\ items' = [items EXCEPT ![i].wrote = @ \cup {p}]
    /\ UNCHANGED <<setupVars, loadVars, testStartTime, lastFileName, promise,
                   notified, thrown, now>>

\* touchFile's open(path, 'w+') takes effect, a turn after its closure has run and
\* before the stream is closed and the operation settles
TouchOpen(i) ==
    /\ items[i].st = "running"
    /\ items[i].kind = "touchFile"
    /\ items[i].wrote = {}
    /\ files' = FsOpenW(files, items[i].path, now)
    /\ items' = [items EXCEPT ![i].wrote = {items[i].path}]
    /\ UNCHANGED <<setupVars, loadVars, testStartTime, lastFileName, promise,
                   notified, thrown, now>>

\* a running operation settles; touchFile's settles once its file has been opened
Complete(i) ==
    /\ items[i].st = "running"
    /\ items[i].kind = "touchFile" => items[i].wrote # {}
    /\ \E r \in Outcomes(i) :
          items' = [items EXCEPT ![i].st = IF r.ok THEN "fulfilled" ELSE "rejected",
                                 ![i].res = r]
    /\ UNCHANGED <<setupVars, loadVars, files, testStartTime, lastFileName, promise,
                   notified, thrown, now>>

\* Q calls done, registered as both handlers of notify's then, once its promise settles
CallDoneLatest(n) ==
    /\ notified[n].on # 0
    /\ notified[n].calls = 0
    /\ items[promise].st \in {"fulfilled", "rejected"}
    /\ notified' = [notified EXCEPT ![n].calls = @ + 1, ![n].arg = items[promise].res]
    /\ UNCHANGED <<setupVars, loadVars, files, testStartTime, lastFileName, promise,
                   items, thrown, now>>
CallDone(n) ==
    /\ notified[n].on # 0
    /\ notified[n].calls = 0
    /\ items[notified[n].on].st \in {"fulfilled", "rejected"}
    /\ notified' = [notified EXCEPT ![n].calls = @ + 1, ![n].arg = items[notified[n].on].res]
    /\ UNCHANGED <<setupVars, loadVars, files, testStartTime, lastFileName, promise,
                   items, thrown, now>>

\* the clock advances
Tick ==
    /\ now < MaxClock
    /\ now' = now + 1
    /\ UNCHANGED <<setupVars, loadVars, files, testStartTime, lastFileName, promise,
                   items, notified, thrown>>

\* the steps of the event loop that every session with a chain takes
Run ==
    \/ \E i \in DOMAIN items : Start(i)
    \/ \E i \in DOMAIN items : Skip(i)
    \/ \E i \in DOMAIN items : Complete(i)

\* ------------------------------------------------------- specifications
ChainPaths == {"x.ext"}
ChainTrees == {EmptyMap, [p \in ChainPaths |-> <<"a">>]}
TimeTrees == {[p \in D |-> <<"a">>] : D \in {{}, ChainPaths, Paths}}
ContentTrees == {[p \in ChainPaths |-> c] : c \in FileContents}
ArgLists == UNION {[1..n -> Lines] : n \in 1..MaxArgs}

\* a session whose test declares any deferred operations
Next ==
    \/ \E t \in ChainTrees : withSourceFiles(t)
    \/ \E p \in ChainPaths : touchFile(p)
    \/ create("none")
    \/ build("decl", "none")
    \/ \E p \in ChainPaths : producesFile(p)
    \/ withContent(<<TechContent>>)
    \/ \E p \in ChainPaths : writesToFile(p)
    \/ \E p \in ChainPaths : notWritesToFile(p)
    \/ asserts
    \/ Run
    \/ \E i \in DOMAIN items : \E p \in ChainPaths : TechWrite(i, p)
    \/ \E i \in DOMAIN items : TouchOpen(i)

Spec == Init /\ [][Next]_vars

\* the same session, notifying a completion callback at any point
NextNotify ==
    \/ Next
    \/ notify
    \/ \E n \in DOMAIN notified : CallDone(n)

SpecNotify == Init /\ [][NextNotify]_vars

\* a session that goes on declaring operations after notify
NextAfterNotify ==
    \/ create("none")
    \/ asserts
    \/ \E p \in ChainPaths : producesFile(p)
    \/ notify
    \/ \E n \in DOMAIN notified : CallDone(n)
    \/ Run

SpecAfterNotify == Init /\ [][NextAfterNotify]_vars

\* a session that asserts on modification times while the clock runs
NextTime ==
    \/ \E t \in TimeTrees : withSourceFiles(t)
    \/ create("none")
    \/ build("decl", "none")
    \/ \E p \in ChainPaths : touchFile(p)
    \/ \E p \in ChainPaths : writesToFile(p)
    \/ \E p \in ChainPaths : notWritesToFile(p)
    \/ Run
    \/ \E i \in DOMAIN items : \E p \in ChainPaths : TechWrite(i, p)
    \/ \E i \in DOMAIN items : TouchOpen(i)
    \/ Tick

SpecTime == Init /\ [][NextTime]_vars

\* a session whose actions and modification-time checks start while the clock runs
NextStart ==
    \/ \E t \in ChainTrees : withSourceFiles(t)
    \/ create("none")
    \/ build("decl", "none")
    \/ \E p \in ChainPaths : touchFile(p)
    \/ \E p \in ChainPaths : writesToFile(p)
    \/ \E p \in ChainPaths : notWritesToFile(p)
    \/ Run
    \/ \E i \in DOMAIN items : \E p \in ChainPaths : TechWrite(i, p)
    \/ \E i \in DOMAIN items : TouchOpen(i)
    \/ Tick

SpecStart == Init /\ [][NextStart]_vars

\* a session that checks file contents
NextContent ==
    \/ \E t \in ContentTrees : withSourceFiles(t)
    \/ create("none")
    \/ \E p \in ChainPaths : producesFile(p)
    \/ \E a \in ArgLists : withContent(a)
    \/ Run

SpecContent == Init /\ [][NextContent]_vars

\* a session that names several files and checks the content of each; its first
\* action may fail to resolve the technology
BindingTrees == {[p \in Paths |-> IF p = "x.ext" THEN <<"a">> ELSE <<"a", NL>>]}
NextBinding ==
    \/ \E t \in BindingTrees : withSourceFiles(t)
    \/ \E f \in {"none", "tech"} : create(f)
    \/ \E p \in Paths : producesFile(p)
    \/ \E c \in {<<"a">>, <<"a", NL>>} : withContent(<<c>>)
    \/ Run

SpecBinding == Init /\ [][NextBinding]_vars

\* a session that changes its source tree and its mocks between actions and
\* inspects the file system
VfsTables == {m \in MockTables : \E k \in DOMAIN m : k \in {"fs", "net"} /\ m[k].v = "null"}
NextVfs ==
    \/ \E t \in ChainTrees : withSourceFiles(t)
    \/ \E m \in VfsTables : withMockedModules(m)
    \/ create("none")
    \/ build("decl", "none")
    \/ \E p \in ChainPaths : touchFile(p)
    \/ \E p \in ChainPaths : producesFile(p)
    \/ Run
    \/ \E i \in DOMAIN items : \E p \in ChainPaths : TechWrite(i, p)
    \/ \E i \in DOMAIN items : TouchOpen(i)

SpecVfs == Init /\ [][NextVfs]_vars

\* a session that calls every setup method, before and after an action
SetupTables == {m \in MockTables : \E k \in DOMAIN m : k \in {"fs", "net"} /\ m[k].v = "object"}
SetupResolves == {r \in ResolveTables : DOMAIN r = {"net"}}
NextSetup ==
    \/ \E t \in ChainTrees : withSourceFiles(t)
    \/ \E m \in SetupTables : withMockedModules(m)
    \/ \E r \in SetupResolves : withMockedModulesResolves(r)
    \/ \E l \in {<<"/blocks", "/">>} : withLevels(l)
    \/ \E l \in {"/blocks"} : withLevel(l)
    \/ \E r \in {1} : withTechMap(r)
    \/ create("none")
    \/ Run

SpecSetup == Init /\ [][NextSetup]_vars

\* a session that accumulates its two tables before and between actions
TableSets == {m \in MockTables : DOMAIN m \subseteq {"fs", "net"}}
NextTables ==
    \/ \E m \in TableSets : withMockedModules(m)
    \/ \E r \in ResolveTables : withMockedModulesResolves(r)
    \/ create("none")

SpecTables == Init /\ [][NextTables]_vars

\* a session whose technology map object is also given to a second session
NextShared ==
    \/ \E r \in AuthorMaps : withTechMap(r)
    \/ \E l \in LevelLists : withLevels(l)
    \/ create("none")
    \/ build("decl", "none")
    \/ \E r \in AuthorMaps : otherLoadLevels(r)
    \/ Run

SpecShared == Init /\ [][NextShared]_vars

\* a session that sets up its mock tables before and between actions
NextMocks ==
    \/ \E m \in MockTables : withMockedModules(m)
    \/ \E m \in ResolveTables : withMockedModulesResolves(m)
    \/ create("none")

SpecMocks == Init /\ [][NextMocks]_vars

\* a session that sets up its levels and technology map before and between actions
NextLevels ==
    \/ \E l \in LevelLists : withLevels(l)
    \/ \E l \in LevelPaths : withLevel(l)
    \/ \E r \in AuthorMaps : withTechMap(r)
    \/ \E f \in LoadFailures : create(f)
    \/ \E f \in LoadFailures : build("decl", f)

SpecLevels == Init /\ [][NextLevels]_vars

\* a session that sets up its levels between actions whose operations run
NextSelect ==
    \/ \E l \in LevelLists : withLevels(l)
    \/ \E l \in LevelPaths : withLevel(l)
    \/ \E f \in LoadFailures : create(f)
    \/ \E f \in LoadFailures : build("decl", f)
    \/ Run

SpecSelect == Init /\ [][NextSelect]_vars

\* ------------------------------------------------------------- claims
Settled(i) == items[i].st \in {"fulfilled", "rejected", "thrown"}
Failed(i) == items[i].ran /\ items[i].st \in {"rejected", "thrown"}
Running == {i \in DOMAIN items : items[i].st = "running"}

\* C1: the deferred operations run in declaration order, each one started only after
\* every operation declared before it has completed, so at most one is in progress.
ChainInOrder ==
    /\ Cardinality(Running) <= 1
    /\ \A i \in DOMAIN items : items[i].ran => \A j \in 1..(i - 1) : Settled(j)

\* three operations declared, the first two completed and the third in progress
ChainInOrderWitness ==
    /\ Len(items) >= 3
    /\ items[1].st = "fulfilled" /\ items[2].st = "fulfilled" /\ items[3].st = "running"
    /\ items[3].prev = 2 /\ items[2].prev = 1

\* C2: once an operation has failed no operation declared after it is executed, and an
\* error delivered to a notify callback is the error of the first operation that failed
\* (among those declared before that notify call).
FailFast ==
    /\ \A i \in DOMAIN items : \A j \in DOMAIN items : (i < j /\ Failed(i)) => ~items[j].ran
    /\ \A n \in DOMAIN notified :
          (notified[n].calls > 0 /\ \E i \in 1..notified[n].on : Failed(i))
             => LET first == CHOOSE i \in 1..notified[n].on :
                                Failed(i) /\ \A j \in 1..(i - 1) : ~Failed(j)
                IN  notified[n].arg = items[first].res

\* nothing is left to run: every operation has settled and every registered callback
\* whose promise has settled has been called
Drained ==
    /\ \A i \in DOMAIN items : Settled(i)
    /\ \A n \in DOMAIN notified : notified[n].on # 0 => notified[n].calls > 0

\* C3: done is invoked exactly once per notify(done) call: never twice, and once the
\* chain has drained never zero times, whatever calls preceded notify (none included).
DoneExactlyOnce ==
    \A n \in DOMAIN notified :
        /\ notified[n].calls <= 1
        /\ Drained => notified[n].calls = 1

\* C4: the file system, the mock table, the stub levels, the context and the technology
\* are each constructed at most once in a session.
LoadedOnce == \A r \in DOMAIN built : built[r] <= 1

\* C5: withMockedModules raises the configuration error whenever its table has one of
\* the keys fs, q-fs, q-io/fs, whatever value is stored under it.
ReservedAlwaysRejected ==
    [][\A m \in MockTables :
          (withMockedModules(m) /\ DOMAIN m \cap ReservedIds # {}) => thrown' = "ConfigError"]_vars

\* C6: against one recorded start time, writesToFile(p) and notWritesToFile(p) are
\* exclusive and exhaustive for a path that exists, and both fail with not-found for
\* a path that does not.
MtimeChecksExclusive ==
    \A p \in Paths :
        testStartTime # NoTime =>
            LET w == writesToFileOutcome(files, p, testStartTime)
                n == notWritesToFileOutcome(files, p, testStartTime)
            IN  IF Exists(files, p)
                THEN /\ w \cup n = {"pass", "AssertionError"}
                     /\ Cardinality(w) = 1 /\ Cardinality(n) = 1
                ELSE w = {"NotFound"} /\ n = {"NotFound"}

\* notWritesToFile has passed on a file stamped in the very tick the action started
MtimeChecksWitness ==
    \E i \in DOMAIN items :
        /\ items[i].kind = "notWritesToFile" /\ items[i].st = "fulfilled"
        /\ Exists(files, items[i].path)
        /\ files[items[i].path].mtime = testStartTime

\* the latest create/build that has run
LatestAction(a) ==
    /\ items[a].kind \in Actions /\ items[a].ran
    /\ \A b \in DOMAIN items : (b > a /\ items[b].kind \in Actions) => ~items[b].ran
TouchedSince(a) ==
    \E t \in DOMAIN items : t > a /\ items[t].kind = "touchFile" /\ items[t].ran

\* C7: after an action that wrote p, producesFile(p) and writesToFile(p) pass and
\* notWritesToFile(p) fails, at whatever time the write happened; after an action that
\* did not write an existing, untouched p, writesToFile(p) fails and notWritesToFile(p)
\* passes.
WrittenFileIsSeen ==
    \A a \in DOMAIN items :
        (LatestAction(a) /\ items[a].st = "fulfilled" /\ ~TouchedSince(a)) =>
            \A p \in Paths :
                LET w == writesToFileOutcome(files, p, testStartTime)
                    n == notWritesToFileOutcome(files, p, testStartTime)
                IN  /\ p \in items[a].wrote =>
                          /\ producesFileOutcome(files, p) = "pass"
                          /\ w = {"pass"}
                          /\ n = {"AssertionError"}
                    /\ (p \notin items[a].wrote /\ Exists(files, p)) =>
                          /\ w = {"AssertionError"}
                          /\ n = {"pass"}

\* a1 + '\n' + a2 + ... + '\n' + an, built from the left
LinesJoined(args) ==
    LET f[k \in 1..Len(args)] == IF k = 1 THEN args[1] ELSE f[k - 1] \o <<NL>> \o args[k]
    IN  f[Len(args)]

\* C8: withContent(a1, ..., an) enqueues the check that withContent of the single string
\* a1 + '\n' + ... + '\n' + an enqueues, and that check passes exactly when the file's
\* content is that string.
ContentJoin ==
    /\ [](\A i \in DOMAIN items :
            items[i].kind = "withContent" =>
                items[i].content = expectedContent(<<LinesJoined(items[i].args)>>))
    /\ [][\A i \in DOMAIN items :
            (items[i].kind = "withContent" /\ Complete(i)) =>
                (items'[i].res.ok <=> (/\ Exists(files, items[i].path)
                                      /\ files[items[i].path].content
                                            = LinesJoined(items[i].args)))]_vars

\* a check declared with two arguments, the second the empty line, has passed
ContentJoinWitness ==
    \E i \in DOMAIN items :
        /\ items[i].kind = "withContent" /\ items[i].st = "fulfilled"
        /\ items[i].args = <<<<"a">>, <<>>>>
        /\ files[items[i].path].content = <<"a", NL>>

\* C9: touchFile(p) on an existing file updates its modification time and leaves its
\* content and every other path as they were.
TouchKeepsContent ==
    [][\A i \in DOMAIN items :
          (Exists(files, items[i].path) /\ TouchOpen(i)) =>
              /\ files'[items[i].path].mtime = now
              /\ files'[items[i].path].content = files[items[i].path].content
              /\ \A q \in (DOMAIN files \cup DOMAIN files') \ {items[i].path} :
                    q \in DOMAIN files /\ q \in DOMAIN files' /\ files'[q] = files[q]]_vars

\* every level returns the session's own map, rooted at '/', with the technology under
\* test and the author's other entries in it
LevelsConsistent ==
    /\ levels # <<>>
    /\ \A i \in DOMAIN levels : levels[i].techMap = techMap
LevelsRegistry ==
    \A i \in DOMAIN levels :
        LET reg == getTechs(levels[i], heap) IN
        /\ levels[i].projectRoot = "/"
        /\ TechName \in DOMAIN reg /\ reg[TechName] = ModulePath
        /\ levels[i].techMap \in AuthorMaps =>
              \A k \in DOMAIN AuthorMapInit[levels[i].techMap] :
                  /\ k \in DOMAIN reg
                  /\ k # TechName => reg[k] = AuthorMapInit[levels[i].techMap][k]

\* C10: after materialization every stub level's getTechs() is the session's technology
\* map, which maps the technology under test to its module path and keeps the author's
\* entries, and every level's project root is '/'.  The levels are those of the latest
\* materialization: they stay the session's map until withTechMap replaces it.
StubLevelsHoldRegistry ==
    /\ []LevelsRegistry
    /\ [][levels' # levels => LevelsConsistent']_vars
    /\ [][(LevelsConsistent /\ techMap' = techMap) => LevelsConsistent']_vars

\* two levels materialized over the author's map that names the technology itself
StubLevelsWitness ==
    /\ Len(levels) = 2
    /\ techMap = 2
    /\ levels[1].techMap = 2 /\ levels[1].path = "/blocks"
    /\ tech.id # 0

\* `after` is `before` with the keys of table t added, each bound as t binds it
Accumulated(before, t, after) ==
    /\ DOMAIN after = DOMAIN before \cup DOMAIN t
    /\ \A k \in DOMAIN after : after[k] = IF k \in DOMAIN t THEN t[k] ELSE before[k]

\* C11: every accepted withMockedModules call, and every withMockedModulesResolves call,
\* adds its table's keys to the session's table, the new value replacing an older one
\* under the same key and every other key kept; neither call changes the other table,
\* and nothing else changes either table.
TablesAccumulate ==
    [][/\ \A m \in MockTables :
             (withMockedModules(m) /\ thrown' = "none") =>
                 /\ Accumulated(mockedModules, m, mockedModules')
                 /\ mockedResolves' = mockedResolves
       /\ \A r \in ResolveTables :
             withMockedModulesResolves(r) =>
                 /\ Accumulated(mockedResolves, r, mockedResolves')
                 /\ mockedModules' = mockedModules
       /\ mockedModules' # mockedModules => \E m \in MockTables : withMockedModules(m)
       /\ mockedResolves' # mockedResolves =>
             \E r \in ResolveTables : withMockedModulesResolves(r)]_vars

\* two resolve tables and a module table accumulated, then handed to an action
TablesAccumulateWitness ==
    /\ DOMAIN mockedResolves = {"net", "dep"}
    /\ mockedResolves["net"] = "/stub/b"
    /\ "net" \in DOMAIN mockedModules /\ mockedModules["net"].v = "null"
    /\ "net" \in DOMAIN mocks

\* the level list in force: the configured one, or the root level when neither
\* withLevel nor withLevels was called
ConfiguredPaths == IF levelPaths = <<>> THEN <<"/">> ELSE levelPaths
Newest == Len(items')
Declared(kind) == Len(items') = Len(items) + 1 /\ items'[Newest].kind = kind
\* operation i starts to run in this step, at its declaration or later
BeginsNow(i) == items'[i].ran /\ (i \notin DOMAIN items \/ ~items[i].ran)

\* C12: withLevel(p) is withLevels([p]); a materialization creates one stub level per
\* configured path, in order, and the single root level when none was configured;
\* create captures the first of them for its invocation and build's invocation receives
\* the session's whole list (that of the latest materialization) in that order.
LevelSelection ==
    /\ [][\A p \in LevelPaths : withLevel(p) <=> withLevels(<<p>>)]_vars
    /\ [][levels' # levels =>
             /\ Len(levels') = Len(ConfiguredPaths)
             /\ \A i \in DOMAIN levels' : levels'[i].path = ConfiguredPaths[i]]_vars
    /\ [][Declared("create") =>
             /\ items'[Newest].level = levels'[1]
             /\ items'[Newest].level.path = ConfiguredPaths[1]]_vars
    /\ [][\A i \in DOMAIN items' :
             (items'[i].kind = "build" /\ BeginsNow(i)) =>
                 items'[i].levels = levels' /\ Len(levels') >= 1]_vars

\* a build has received two levels in the configured order and a create declared
\* after withLevel captured that single level; elsewhere the root level is the default
LevelSelectionWitness ==
    \E i \in DOMAIN items : \E j \in DOMAIN items :
        /\ items[i].kind = "build" /\ items[i].ran
        /\ Len(items[i].levels) = 2
        /\ items[i].levels[1].path = "/blocks" /\ items[i].levels[2].path = "/"
        /\ items[j].kind = "create" /\ items[j].level.path = "/blocks"
        /\ items[j].declLevels = <<items[j].level>>

\* the operations whose errors come from the technology under test or from the test's
\* own function
Raising == {"create", "build", "asserts"}

\* C13: an error of create, build or asserts, thrown or delivered as a rejection, by the
\* first deferred operation or a later one, is never thrown out of the call that
\* declared the operation, and a notify callback registered after it is called with
\* that very error when it is the first failure of the chain.
ErrorsTravelTheChain ==
    /\ \A i \in DOMAIN items : items[i].kind \in Raising => items[i].st # "thrown"
    /\ thrown \notin {"TechThrow", "TechReject", "CustomError"}
    /\ \A n \in DOMAIN notified : \A i \in DOMAIN items :
          (/\ notified[n].calls > 0
           /\ i <= notified[n].on
           /\ items[i].kind \in Raising
           /\ Failed(i) /\ items[i].res.by = i
           /\ \A j \in 1..(i - 1) : ~Failed(j))
             => notified[n].arg = items[i].res

\* C14: a create or build whose materialization fails returns normally and leaves a
\* rejected operation at the end of the chain, carrying the failure.
LoadFailureRejectsChain ==
    [][\A f \in LoadFailures \ {"none"} :
          (create(f) \/ build("decl", f)) =>
              /\ thrown' = "none"
              /\ Len(items') = Len(items) + 1
              /\ promise' = Newest
              /\ items'[Newest].st = "rejected"
              /\ items'[Newest].res.v = "LoadError"]_vars

\* C15: a notify callback called after a chain that succeeded is called with no value,
\* whatever the last operation resolved with; it is called with a value only when an
\* operation failed.
DoneSuccessHasNoArgument ==
    \A n \in DOMAIN notified :
        notified[n].calls > 0 =>
            /\ notified[n].arg.ok => notified[n].arg.v = "undefined"
            /\ notified[n].arg.v # "undefined" => \E i \in DOMAIN items : Failed(i)

MtimeChecks == {"writesToFile", "notWritesToFile"}
\* the latest create/build declared before operation i, 0 when there is none
ActionBefore(i) ==
    LET A == {a \in 1..(i - 1) : items[a].kind \in Actions}
    IN  IF A = {} THEN 0 ELSE CHOOSE a \in A : \A b \in A : b <= a

\* C16: the start time is the clock reading at the moment the operation of a create or
\* of a build starts to run; only such a start changes it; and while a writesToFile or
\* notWritesToFile operation runs, it is the reading taken by the latest action
\* declared before that operation.
StartTimeAtExecution ==
    /\ [][\A i \in DOMAIN items' :
             (items'[i].kind \in Actions /\ BeginsNow(i)) =>
                 testStartTime' = now /\ items'[i].startedAt = now]_vars
    /\ [][testStartTime' # testStartTime =>
             \E i \in DOMAIN items' : items'[i].kind \in Actions /\ BeginsNow(i)]_vars
    /\ [](\A i \in DOMAIN items :
             (items[i].kind \in MtimeChecks /\ items[i].st = "running"
                                            /\ ActionBefore(i) # 0) =>
                 /\ items[ActionBefore(i)].ran
                 /\ testStartTime = items[ActionBefore(i)].startedAt)

\* a modification-time check runs against the reading of the second of two actions,
\* taken when that action ran, a tick after the first had started
StartTimeWitness ==
    /\ Len(items) = 3
    /\ items[1].kind \in Actions /\ items[1].startedAt = 0
    /\ items[2].kind \in Actions /\ items[2].prev = 1 /\ items[2].startedAt = 1
    /\ items[3].kind \in MtimeChecks /\ items[3].st = "running"
    /\ testStartTime = 1

\* the path named by the latest producesFile declared before operation i
NamedBefore(i) ==
    LET P == {j \in 1..(i - 1) : items[j].kind = "producesFile"}
    IN  IF P = {} THEN "undefined" ELSE items[CHOOSE j \in P : \A k \in P : k <= j].path

\* C17: a withContent check is bound, when it is declared, to the file named by the
\* latest producesFile declared before it, and when it runs it passes exactly when
\* that file exists with the expected content, whatever was declared afterwards.
ContentBinding ==
    /\ [](\A i \in DOMAIN items :
             items[i].kind = "withContent" => items[i].path = NamedBefore(i))
    /\ [][\A i \in DOMAIN items :
             (items[i].kind = "withContent" /\ Complete(i)) =>
                 (items'[i].res.ok <=> (/\ Exists(files, NamedBefore(i))
                                       /\ files[NamedBefore(i)].content
                                             = items[i].content))]_vars

\* after two producesFile calls naming different files, a check of the second file's
\* content, which the first file does not have, has passed
ContentBindingWitness ==
    /\ Len(items) = 3
    /\ items[1].kind = "producesFile" /\ items[1].path = "x.ext"
    /\ items[2].kind = "producesFile" /\ items[2].path = "y.ext"
    /\ items[3].kind = "withContent" /\ items[3].st = "fulfilled"
    /\ items[3].content = <<"a", NL>>
    /\ files["x.ext"].content # items[3].content
    /\ lastFileName = "y.ext"

\* the three identifiers are bound to the session's file system instance, 'fs' through
\* the adapter over it
BoundToVfs(table, fid) ==
    /\ {"q-io/fs", "q-fs", "fs"} \subseteq DOMAIN table
    /\ table["q-io/fs"] = [kind |-> "QFSMock", v |-> "object", id |-> fid]
    /\ table["q-fs"] = [kind |-> "QFSMock", v |-> "object", id |-> fid]
    /\ table["fs"] = [kind |-> "FSMock", v |-> "object", id |-> fid]

\* C18: a session has one file system instance, constructed by its first action from
\* the source tree set at that moment and never replaced; the mock table of every
\* materialization binds 'q-io/fs', 'q-fs' and 'fs' to it, whatever the author's table
\* holds; and its content changes only by writes of the technology and by touchFile,
\* not by withSourceFiles or by an action.
SingleVfs ==
    /\ [](built.fs <= 1 /\ fsId = built.fs)
    /\ [](built.mocks > 0 => fsId # 0 /\ BoundToVfs(mocks, fsId))
    /\ [][fsId' # fsId =>
             /\ fsId = 0 /\ built.mocks = 0 /\ built'.mocks = 1
             /\ files' = QFSMock(sources, now)]_vars
    /\ [][(fsId' = fsId /\ files' # files) =>
             \E i \in DOMAIN items :
                 \/ \E p \in ChainPaths : TechWrite(i, p)
                 \/ TouchOpen(i)]_vars

\* a second action has materialized after the source tree was replaced and a
\* substitute for 'fs' was accepted: the file system is still the first one, with
\* the first tree, and the three identifiers are bound to it
SingleVfsWitness ==
    /\ built.mocks = 2 /\ built.fs = 1
    /\ DOMAIN sources # {} /\ DOMAIN files = {}
    /\ "fs" \in DOMAIN mockedModules
    /\ BoundToVfs(mocks, 1)
    /\ \E i \in DOMAIN items : items[i].kind = "producesFile" /\ items[i].st = "rejected"

\* a call of one of the six setup methods
SetupCall ==
    \/ \E t \in ChainTrees : withSourceFiles(t)
    \/ \E m \in SetupTables : withMockedModules(m)
    \/ \E r \in SetupResolves : withMockedModulesResolves(r)
    \/ \E l \in LevelLists : withLevels(l)
    \/ \E l \in LevelPaths : withLevel(l)
    \/ \E r \in AuthorMaps : withTechMap(r)

\* C19: a setup call, raising or not, constructs nothing and appends nothing to the
\* chain; a table with a reserved identifier bound to a module makes the setup call
\* itself raise the configuration error, leaving the mock table as it was, and no
\* other call raises that error.
SetupIsPure ==
    /\ [][SetupCall => UNCHANGED <<fsId, files, mocks, levels, context, tech, built,
                                    items, promise, heap>>]_vars
    /\ [][\A m \in SetupTables :
             (withMockedModules(m) /\ \E k \in DOMAIN m \cap ReservedIds : Truthy(m[k].v)) =>
                 /\ thrown' = "ConfigError"
                 /\ UNCHANGED <<setupVars, loadVars, files, items, promise>>]_vars
    /\ [][(thrown' = "ConfigError" /\ thrown # "ConfigError") =>
             \E m \in SetupTables : withMockedModules(m)]_vars

\* after an action, with a mock table accumulated, a setup call has raised the
\* configuration error
SetupIsPureWitness ==
    /\ thrown = "ConfigError"
    /\ "net" \in DOMAIN mockedModules
    /\ built.mocks = 1 /\ Len(items) = 1
    /\ "net" \notin DOMAIN mocks
    /\ levelPaths = <<"/">> /\ techMap = 1

\* C20: a create or build that has run has run on the technology instance that its
\* own call materialized, create against the first level and build with the level
\* list of that same materialization.
ActionsUseTheirOwnLoad ==
    \A i \in DOMAIN items :
        (items[i].kind \in Actions /\ items[i].ran) =>
            /\ items[i].tech = items[i].declTech
            /\ items[i].kind = "create" => items[i].level = items[i].declLevels[1]
            /\ items[i].kind = "build" => items[i].levels = items[i].declLevels

\* C21: materialization leaves every map object of the author as the author made it,
\* and the registry of every stub level of this session holds only the author's
\* entries and the entry of this session's technology, not another session's.
RegistryIsolated ==
    /\ \A r \in AuthorMaps : heap[r] = AuthorMapInit[r]
    /\ \A i \in DOMAIN levels :
          LET reg == getTechs(levels[i], heap)
              own == IF levels[i].techMap \in AuthorMaps
                     THEN DOMAIN AuthorMapInit[levels[i].techMap] ELSE {}
          IN  DOMAIN reg \subseteq own \cup {TechName}

\* C22: done is called at most once per notify call, with the result of the promise
\* that ended the chain when notify was called: a result produced by an operation
\* declared before notify, fixed once delivered.  Operations declared after notify
\* still run in declaration order, and neither their success nor their failure
\* reaches done.
NotifyCoversEarlierItems ==
    /\ [](\A n \in DOMAIN notified :
             /\ notified[n].calls <= 1
             /\ notified[n].calls = 1 =>
                   /\ Settled(notified[n].on)
                   /\ notified[n].arg = items[notified[n].on].res
                   /\ notified[n].arg.by \in 1..notified[n].on
             /\ \A i \in DOMAIN items :
                   (i > notified[n].on /\ notified[n].on # 0 /\ items[i].ran) =>
                       \A j \in 1..(i - 1) : Settled(j))
    /\ [][\A n \in DOMAIN notified :
             notified[n].calls = 1 => notified'[n] = notified[n]]_vars

\* done has been called with the success of the operation declared before notify,
\* and the operation declared after notify has failed with an error of its own
NotifyCoversWitness ==
    /\ Len(notified) = 1 /\ notified[1].calls = 1
    /\ notified[1].on = 1 /\ notified[1].arg.ok
    /\ Len(items) >= 2
    /\ items[2].st = "rejected" /\ items[2].res.by = 2

====
